---------------------------- MODULE Spec2Model ----------------------------
(***************************************************************************)
(* Model of rubble's advertising-channel PDU module                        *)
(* (src/ble/link/advertising.rs): the 16-bit Header codec, the PduType     *)
(* enumeration and the PduBuf constructors.                                *)
(***************************************************************************)
EXTENDS Integers, Sequences, FiniteSets, TLC

VARIABLES
    hdr,       \* the Header under construction/inspection: its u16, or NoHeader
    log,       \* what the builder of hdr passed to new and the setters (NoLog if parsed)
    panicked,  \* TRUE once an assert!/unimplemented!() has aborted the program
    pdu        \* outcome of the PduBuf constructor call, or NoCall

vars == <<hdr, log, panicked, pdu>>

\* ------------------------------------------------------------------ words

U8 == 0..255

U16Mod == 65536

RECURSIVE AndBits(_, _)
\* a & b, bit by bit
AndBits(a, b) ==
    IF a = 0 \/ b = 0 THEN 0
    ELSE (a % 2) * (b % 2) + 2 * AndBits(a \div 2, b \div 2)

RECURSIVE OrBits(_, _)
\* a | b, bit by bit
OrBits(a, b) ==
    IF a = 0 THEN b
    ELSE IF b = 0 THEN a
    ELSE (IF a % 2 = 1 \/ b % 2 = 1 THEN 1 ELSE 0) + 2 * OrBits(a \div 2, b \div 2)

\* & and | of two octets, tabulated once
AndTable == [x \in U8 |-> [y \in U8 |-> AndBits(x, y)]]

OrTable == [x \in U8 |-> [y \in U8 |-> OrBits(x, y)]]

\* a & b on u16: octet by octet
BitAnd(a, b) ==
    AndTable[a % 256][b % 256] + 256 * AndTable[a \div 256][b \div 256]

\* a | b on u16: octet by octet
BitOr(a, b) ==
    OrTable[a % 256][b % 256] + 256 * OrTable[a \div 256][b \div 256]

\* !a on a u16
BitNot16(a) == (U16Mod - 1) - a

\* (a as u16) << k, truncated to 16 bits
Shl16(a, k) == (a * (2 ^ k)) % U16Mod

\* a >> k
Shr(a, k) == a \div (2 ^ k)

\* ---------------------------------------------------------------- PduType

KnownTypes ==
    { "AdvInd", "AdvDirectInd", "AdvNonconnInd", "AdvScanInd",
      "ScanReq", "ScanRsp", "ConnectReq" }

Known(name) == <<name>>

Unknown(raw) == <<"Unknown", raw>>

\* every value of the enum PduType(u8)
PduType == { Known(t) : t \in KnownTypes } \cup { Unknown(r) : r \in U8 }

\* impl From<u8> for PduType
PduTypeFromU8(value) ==
    CASE value = 0 -> Known("AdvInd")
      [] value = 1 -> Known("AdvDirectInd")
      [] value = 2 -> Known("AdvNonconnInd")
      [] value = 6 -> Known("AdvScanInd")
      [] value = 3 -> Known("ScanReq")
      [] value = 4 -> Known("ScanRsp")
      [] value = 5 -> Known("ConnectReq")
      [] OTHER -> Unknown(value)

\* impl From<PduType> for u8
U8FromPduType(ty) ==
    CASE ty = Known("AdvInd") -> 0
      [] ty = Known("AdvDirectInd") -> 1
      [] ty = Known("AdvNonconnInd") -> 2
      [] ty = Known("AdvScanInd") -> 6
      [] ty = Known("ScanReq") -> 3
      [] ty = Known("ScanRsp") -> 4
      [] ty = Known("ConnectReq") -> 5
      [] OTHER -> ty[2]

\* ----------------------------------------------------------------- Header

TXADD_MASK == 64

RXADD_MASK == 128

TYPE_MASK == 15

LENGTH_MASK == 16128

MIN_PAYLOAD_LENGTH == 6

MAX_PAYLOAD_LENGTH == 37

\* Header::new
new(ty) == U8FromPduType(ty)

\* mutant of read_u16: the octets read most significant first
read_u16_be(raw) == raw[2] + 256 * raw[1]

\* LittleEndian::read_u16
read_u16(raw) == raw[1] + 256 * raw[2]

\* Header::parse
parse(raw) == read_u16(raw)

\* Header::to_u16
to_u16(h) == h

\* the two octets of a u16 as transmitted, least significant first
le_bytes(x) == <<x % 256, x \div 256>>

\* Header::set_header_bits
set_header_bits(h, mask) == BitOr(h, mask)

\* mutant of clear_header_bits: the mask not inverted
clear_header_bits_keep(h, mask) == BitAnd(h, mask)

\* Header::clear_header_bits
clear_header_bits(h, mask) == BitAnd(h, BitNot16(mask))

\* Header::type_
type_(h) == PduTypeFromU8(BitAnd(h, TYPE_MASK))

\* Header::tx_add
tx_add(h) == BitAnd(h, TXADD_MASK) # 0

\* Header::set_tx_add
set_tx_add(h, value) ==
    IF value THEN set_header_bits(h, TXADD_MASK)
    ELSE clear_header_bits(h, TXADD_MASK)

\* Header::rx_add
rx_add(h) == BitAnd(h, RXADD_MASK) # 0

\* Header::set_rx_add
set_rx_add(h, value) ==
    IF value THEN set_header_bits(h, RXADD_MASK)
    ELSE clear_header_bits(h, RXADD_MASK)

\* Header::payload_length
payload_length(h) == Shr(BitAnd(h, LENGTH_MASK), 8)

\* mutant of length_in_range: the lower bound not checked
length_at_most_max(length) == length <= MAX_PAYLOAD_LENGTH

\* the assert! of Header::set_payload_length
length_in_range(length) ==
    MIN_PAYLOAD_LENGTH <= length /\ length <= MAX_PAYLOAD_LENGTH

\* Header::set_payload_length: the header it stores, or the panic of its assert!
set_payload_length(h, length) ==
    IF length_in_range(length)
    THEN [panic |-> FALSE,
          header |-> BitOr(BitAnd(h, BitNot16(LENGTH_MASK)), Shl16(length, 8))]
    ELSE [panic |-> TRUE, header |-> h]

\* ------------------------------------------------- the life of one Header

\* hdr is <<>> before the header exists and <<h>> once it holds the u16 h;
\* a field of log is <<>> until the builder sets it and <<v>> afterwards.
NoHeader == <<>>

NotSet == <<>>

\* the log of a header that was parsed, not built
NoLog == [ty |-> NotSet, tx |-> NotSet, rx |-> NotSet, len |-> NotSet]

Built == log.ty # NotSet

\* let mut h = Header::new(ty), for any PduType
New ==
    /\ hdr = NoHeader /\ ~panicked
    /\ \E ty \in PduType :
         /\ hdr' = <<new(ty)>>
         /\ log' = [NoLog EXCEPT !.ty = <<ty>>]
    /\ UNCHANGED <<panicked, pdu>>

\* let mut h = Header::parse(&[b0, b1]), for any two octets
Parse ==
    /\ hdr = NoHeader /\ ~panicked
    /\ \E b0 \in U8, b1 \in U8 : hdr' = <<parse(<<b0, b1>>)>>
    /\ UNCHANGED <<log, panicked, pdu>>

\* h.set_tx_add(value)
SetTxAdd ==
    /\ hdr # NoHeader /\ ~panicked
    /\ \E value \in BOOLEAN :
         /\ hdr' = <<set_tx_add(hdr[1], value)>>
         /\ log' = IF Built THEN [log EXCEPT !.tx = <<value>>] ELSE log
    /\ UNCHANGED <<panicked, pdu>>

\* h.set_rx_add(value)
SetRxAdd ==
    /\ hdr # NoHeader /\ ~panicked
    /\ \E value \in BOOLEAN :
         /\ hdr' = <<set_rx_add(hdr[1], value)>>
         /\ log' = IF Built THEN [log EXCEPT !.rx = <<value>>] ELSE log
    /\ UNCHANGED <<panicked, pdu>>

\* h.set_payload_length(length), for any u8
SetPayloadLength ==
    /\ hdr # NoHeader /\ ~panicked
    /\ \E length \in U8 :
         LET r == set_payload_length(hdr[1], length) IN
         /\ hdr' = <<r.header>>
         /\ panicked' = r.panic
         /\ log' = IF Built /\ ~r.panic THEN [log EXCEPT !.len = <<length>>]
                   ELSE log
    /\ UNCHANGED pdu

\* ------------------------------------------- collaborators of the assembler

\* payload_buf: [u8; MAX_PAYLOAD_SIZE], the same array type as [0; 37]
MAX_PAYLOAD_SIZE == 37

\* DeviceAddress::raw
raw(addr) == addr.bytes

\* DeviceAddress::is_random
is_random(addr) == addr.random

\* AD type of the Flags element
AD_TYPE_FLAGS == 1

\* Flags::broadcast(): BR/EDR not supported
FLAGS_BROADCAST == 4

\* Flags::discoverable(): BR/EDR not supported | LE general discoverable
FLAGS_DISCOVERABLE == 6

\* AdStructure::from(Flags)
FlagsAd(bits) == [ty |-> AD_TYPE_FLAGS, data |-> <<bits>>]

\* the octets of one AD structure: length of what follows, AD type, data
Encode(ad) == <<1 + Len(ad.data), ad.ty>> \o ad.data

\* ByteWriter::new over a buffer
ByteWriter_new(buf) == [buf |-> buf, pos |-> 0]

\* ByteWriter::space_left
space_left(w) == Len(w.buf) - w.pos

\* ByteWriter::write_slice: Err(Eof), writing nothing, when the octets do not fit
write_slice(w, bytes) ==
    IF space_left(w) < Len(bytes)
    THEN [ok |-> FALSE, w |-> w]
    ELSE [ok |-> TRUE,
          w |-> [buf |-> [i \in 1..Len(w.buf) |->
                            IF w.pos < i /\ i <= w.pos + Len(bytes)
                            THEN bytes[i - w.pos] ELSE w.buf[i]],
                 pos |-> w.pos + Len(bytes)]]

\* <AdStructure as ToBytes>::to_bytes
to_bytes(ad, w) == write_slice(w, Encode(ad))

\* ------------------------------------------------------------------ PduBuf

\* [0; MAX_PAYLOAD_SIZE]
ZeroPayload == [i \in 1..MAX_PAYLOAD_SIZE |-> 0]

NoBuf == <<>>

\* Ok(PduBuf { header, payload_buf })
Ok(header, payload_buf) ==
    [outcome |-> "Ok", header |-> <<header>>, payload_buf |-> payload_buf]

\* Err(Error::Eof)
ErrEof == [outcome |-> "Err", header |-> NoHeader, payload_buf |-> NoBuf]

\* a panic: the call returns nothing
Panic == [outcome |-> "Panic", header |-> NoHeader, payload_buf |-> NoBuf]

\* mutant of write_ad: an element that does not fit is skipped
write_ad_skip(r, ad) ==
    LET t == to_bytes(ad, r.w) IN IF r.ok /\ t.ok THEN t ELSE r

\* one turn of `for ad in adv_data { ad.to_bytes(&mut buf)?; }`
write_ad(r, ad) == IF r.ok THEN to_bytes(ad, r.w) ELSE r

RECURSIVE write_ads(_, _)
\* the loop over adv_data, stopped by the first error
write_ads(r, ads) ==
    IF ads = <<>> THEN r ELSE write_ads(write_ad(r, Head(ads)), Tail(ads))

\* mutant of used: the space left taken for the space used
used_left(len, left) == left

\* let used = payload.len() - left
used(len, left) == len - left

\* used as u8
as_u8(n) == n % 256

\* PduBuf::adv
adv(ty, addr, adv_data) ==
    LET buf  == write_slice(ByteWriter_new(ZeroPayload), raw(addr)).w
        r    == write_ads([ok |-> TRUE, w |-> buf], adv_data)
        left == space_left(r.w)
        len  == set_payload_length(new(ty), as_u8(used(Len(r.w.buf), left)))
    IN  IF ~r.ok THEN ErrEof
        ELSE IF len.panic THEN Panic
        ELSE Ok(set_rx_add(set_tx_add(len.header, is_random(addr)), FALSE),
                r.w.buf)

\* PduBuf::connectable_undirected
connectable_undirected(advertiser_addr, advertiser_data) ==
    adv(Known("AdvInd"), advertiser_addr, advertiser_data)

\* mutant of connectable_directed: RxAdd taken from the advertiser
connectable_directed_rx(advertiser_addr, initiator_addr) ==
    LET payload == [i \in 1..MAX_PAYLOAD_SIZE |->
                      IF i <= 6 THEN raw(advertiser_addr)[i]
                      ELSE IF i <= 12 THEN raw(initiator_addr)[i - 6]
                      ELSE 0]
        len == set_payload_length(new(Known("AdvDirectInd")), 6 + 6)
    IN  Ok(set_rx_add(set_tx_add(len.header, is_random(advertiser_addr)),
                      is_random(advertiser_addr)),
           payload)

\* PduBuf::connectable_directed
connectable_directed(advertiser_addr, initiator_addr) ==
    LET payload == [i \in 1..MAX_PAYLOAD_SIZE |->
                      IF i <= 6 THEN raw(advertiser_addr)[i]
                      ELSE IF i <= 12 THEN raw(initiator_addr)[i - 6]
                      ELSE 0]
        len == set_payload_length(new(Known("AdvDirectInd")), 6 + 6)
    IN  IF len.panic THEN Panic
        ELSE Ok(set_rx_add(set_tx_add(len.header, is_random(advertiser_addr)),
                           is_random(initiator_addr)),
                payload)

\* PduBuf::nonconnectable_undirected
nonconnectable_undirected(advertiser_addr, advertiser_data) ==
    adv(Known("AdvNonconnInd"), advertiser_addr, advertiser_data)

\* mutant of scannable_undirected: the packet type of connectable_undirected
scannable_undirected_ind(advertiser_addr, advertiser_data) ==
    adv(Known("AdvInd"), advertiser_addr, advertiser_data)

\* PduBuf::scannable_undirected
scannable_undirected(advertiser_addr, advertiser_data) ==
    adv(Known("AdvScanInd"), advertiser_addr, advertiser_data)

\* mutant of beacon: the Flags element left out
beacon_no_flags(advertiser_addr, advertiser_data) ==
    adv(Known("AdvNonconnInd"), advertiser_addr, advertiser_data)

\* PduBuf::beacon
beacon(advertiser_addr, advertiser_data) ==
    adv(Known("AdvNonconnInd"), advertiser_addr,
        <<FlagsAd(FLAGS_BROADCAST)>> \o advertiser_data)

\* PduBuf::discoverable
discoverable(advertiser_addr, advertiser_data) ==
    adv(Known("AdvInd"), advertiser_addr,
        <<FlagsAd(FLAGS_DISCOVERABLE)>> \o advertiser_data)

\* mutant of scan_request: a request built from the two addresses
scan_request_built(scanner, adv_addr) ==
    Ok(set_rx_add(set_tx_add(set_payload_length(new(Known("ScanReq")), 12).header,
                             is_random(scanner)),
                  is_random(adv_addr)),
       ZeroPayload)

\* PduBuf::scan_request: unimplemented!()
scan_request(scanner, adv_addr) == Panic

\* PduBuf::scan_response: unimplemented!()
scan_response(adv_addr, scan_data) == Panic

\* PduBuf::header
header(buf) == buf.header[1]

\* PduBuf::payload
payload(buf) == SubSeq(buf.payload_buf, 1, payload_length(header(buf)))

\* ------------------------------------------------------------- the inputs

\* longest advertising-data slice a caller passes
MaxAds == 3

AddrBytes == { <<17, 34, 51, 68, 85, 102>>, <<255, 0, 170, 1, 128, 254>> }

Addresses == [bytes : AddrBytes, random : BOOLEAN]

\* data lengths of the caller's AD structures: together with the 3-octet Flags
\* element they give totals below, at and just above the 31 octets left
DataLens == {0, 8, 26, 27, 29, 30}

ManufacturerAd(n) == [ty |-> 255, data |-> [i \in 1..n |-> (7 * i) % 256]]

AdStructures == { ManufacturerAd(n) : n \in DataLens } \cup { FlagsAd(FLAGS_DISCOVERABLE) }

AdSlices == UNION { [1..k -> AdStructures] : k \in 0..MaxAds }

\* ------------------------------------------------- one constructor call

NoArg == <<>>

NoCall == [op |-> "none", a1 |-> NoArg, a2 |-> NoArg, res |-> NoArg]

\* what the caller holds after the call: its arguments and the result
Returned(op, a1, a2, res) == [op |-> op, a1 |-> a1, a2 |-> a2, res |-> <<res>>]

\* PduBuf::connectable_undirected(addr, data), for any arguments
ConnectableUndirected ==
    /\ pdu = NoCall /\ ~panicked
    /\ \E addr \in Addresses, data \in AdSlices :
         LET res == connectable_undirected(addr, data) IN
         /\ pdu' = Returned("connectable_undirected", addr, data, res)
         /\ panicked' = (res.outcome = "Panic")
    /\ UNCHANGED <<hdr, log>>

\* PduBuf::connectable_directed(addr, initiator), for any arguments
ConnectableDirected ==
    /\ pdu = NoCall /\ ~panicked
    /\ \E addr \in Addresses, initiator \in Addresses :
         LET res == connectable_directed(addr, initiator) IN
         /\ pdu' = Returned("connectable_directed", addr, initiator, res)
         /\ panicked' = (res.outcome = "Panic")
    /\ UNCHANGED <<hdr, log>>

\* PduBuf::nonconnectable_undirected(addr, data), for any arguments
NonconnectableUndirected ==
    /\ pdu = NoCall /\ ~panicked
    /\ \E addr \in Addresses, data \in AdSlices :
         LET res == nonconnectable_undirected(addr, data) IN
         /\ pdu' = Returned("nonconnectable_undirected", addr, data, res)
         /\ panicked' = (res.outcome = "Panic")
    /\ UNCHANGED <<hdr, log>>

\* PduBuf::scannable_undirected(addr, data), for any arguments
ScannableUndirected ==
    /\ pdu = NoCall /\ ~panicked
    /\ \E addr \in Addresses, data \in AdSlices :
         LET res == scannable_undirected(addr, data) IN
         /\ pdu' = Returned("scannable_undirected", addr, data, res)
         /\ panicked' = (res.outcome = "Panic")
    /\ UNCHANGED <<hdr, log>>

\* PduBuf::beacon(addr, data), for any arguments
Beacon ==
    /\ pdu = NoCall /\ ~panicked
    /\ \E addr \in Addresses, data \in AdSlices :
         LET res == beacon(addr, data) IN
         /\ pdu' = Returned("beacon", addr, data, res)
         /\ panicked' = (res.outcome = "Panic")
    /\ UNCHANGED <<hdr, log>>

\* PduBuf::discoverable(addr, data), for any arguments
Discoverable ==
    /\ pdu = NoCall /\ ~panicked
    /\ \E addr \in Addresses, data \in AdSlices :
         LET res == discoverable(addr, data) IN
         /\ pdu' = Returned("discoverable", addr, data, res)
         /\ panicked' = (res.outcome = "Panic")
    /\ UNCHANGED <<hdr, log>>

\* PduBuf::scan_request(scanner, addr), for any arguments
ScanRequest ==
    /\ pdu = NoCall /\ ~panicked
    /\ \E scanner \in Addresses, addr \in Addresses :
         LET res == scan_request(scanner, addr) IN
         /\ pdu' = Returned("scan_request", scanner, addr, res)
         /\ panicked' = (res.outcome = "Panic")
    /\ UNCHANGED <<hdr, log>>

\* PduBuf::scan_response(addr, data), for any arguments
ScanResponse ==
    /\ pdu = NoCall /\ ~panicked
    /\ \E addr \in Addresses, data \in AdSlices :
         LET res == scan_response(addr, data) IN
         /\ pdu' = Returned("scan_response", addr, data, res)
         /\ panicked' = (res.outcome = "Panic")
    /\ UNCHANGED <<hdr, log>>

Init ==
    /\ hdr = NoHeader
    /\ log = NoLog
    /\ panicked = FALSE
    /\ pdu = NoCall

Next ==
    \/ ConnectableUndirected
    \/ ConnectableDirected
    \/ NonconnectableUndirected
    \/ ScannableUndirected
    \/ Beacon
    \/ Discoverable
    \/ ScanRequest
    \/ ScanResponse

Spec == Init /\ [][Next]_vars

\* ------------------------------------------------ the header's own specs

\* a header is built, then its fields are set
HeaderNext == New \/ SetTxAdd \/ SetRxAdd \/ SetPayloadLength

HeaderSpec == Init /\ [][HeaderNext]_vars

\* a received header is parsed, then its fields are set
FrameNext == Parse \/ SetTxAdd \/ SetRxAdd \/ SetPayloadLength

FrameSpec == Init /\ [][FrameNext]_vars

\* ---------------------------------------------------------------- claims

\* the result of the constructor call, once it was made
Res == pdu.res[1]

SingleAddress ==
    { "connectable_undirected", "nonconnectable_undirected",
      "scannable_undirected", "beacon", "discoverable" }

Constructors == SingleAddress \cup { "connectable_directed" }

RECURSIVE EncodedSize(_)
\* octets the AD structures take on air: length octet, type octet, data
EncodedSize(ads) ==
    IF ads = <<>> THEN 0 ELSE 2 + Len(Head(ads).data) + EncodedSize(Tail(ads))

RECURSIVE Flatten(_)
\* the AD structures' octets back to back, in order
Flatten(ads) ==
    IF ads = <<>> THEN <<>> ELSE Encode(Head(ads)) \o Flatten(Tail(ads))

\* the Flags element the constructor prepends to the caller's data
Mandatory(op) ==
    CASE op = "beacon" -> <<FlagsAd(FLAGS_BROADCAST)>>
      [] op = "discoverable" -> <<FlagsAd(FLAGS_DISCOVERABLE)>>
      [] OTHER -> <<>>

\* the packet type each single-address constructor announces
TypeOf(op) ==
    CASE op = "connectable_undirected" -> Known("AdvInd")
      [] op = "nonconnectable_undirected" -> Known("AdvNonconnInd")
      [] op = "scannable_undirected" -> Known("AdvScanInd")
      [] op = "beacon" -> Known("AdvNonconnInd")
      [] op = "discoverable" -> Known("AdvInd")

\* C1: a named constructor never panics in set_payload_length, and every
\* buffer it returns has a header length within [6, 37] that payload() can
\* slice out of the 37-octet buffer.
C1_LengthInRange ==
    pdu.op \in Constructors =>
        /\ Res.outcome # "Panic"
        /\ Res.outcome = "Ok" =>
              /\ payload_length(header(Res)) >= 6
              /\ payload_length(header(Res)) <= 37
              /\ Len(Res.payload_buf) = 37
              /\ Len(payload(Res)) = payload_length(header(Res))

\* C1 witness: beacon filled the buffer to its last octet.
C1_Witness ==
    /\ pdu.op = "beacon"
    /\ Res.outcome = "Ok"
    /\ payload_length(header(Res)) = 37

\* C2: a single-address constructor whose advertising data (the prepended
\* Flags element included) takes more than 37 - 6 = 31 octets returns the
\* capacity error and no buffer.
C2_OverflowIsError ==
    (pdu.op \in SingleAddress /\ EncodedSize(Mandatory(pdu.op) \o pdu.a2) > 31) =>
        /\ Res.outcome = "Err"
        /\ Res.header = NoHeader
        /\ Res.payload_buf = NoBuf

\* C2 witness: discoverable with 29 octets of caller data, one octet too many
\* once the 3-octet Flags element is counted.
C2_Witness ==
    /\ pdu.op = "discoverable"
    /\ EncodedSize(pdu.a2) = 29
    /\ Res.outcome = "Err"

\* C3: connectable_directed(A, B) returns a connectable-directed buffer of
\* length 12 whose payload is A's octets then B's, TxAdd = A.is_random and
\* RxAdd = B.is_random.
C3_Directed ==
    pdu.op = "connectable_directed" =>
        /\ Res.outcome = "Ok"
        /\ type_(header(Res)) = Known("AdvDirectInd")
        /\ payload_length(header(Res)) = 12
        /\ payload(Res) = pdu.a1.bytes \o pdu.a2.bytes
        /\ tx_add(header(Res)) = pdu.a1.random
        /\ rx_add(header(Res)) = pdu.a2.random

\* C3 witness: a random advertiser addressing a public initiator that has
\* other address octets.
C3_Witness ==
    /\ pdu.op = "connectable_directed"
    /\ pdu.a1.random /\ ~pdu.a2.random
    /\ pdu.a1.bytes # pdu.a2.bytes
    /\ Res.outcome = "Ok"

\* C4: connectable_undirected, nonconnectable_undirected and
\* scannable_undirected succeed on data of at most 31 octets, with the
\* constructor's packet type, TxAdd = the address's random flag, RxAdd clear,
\* length 6 + the data's size and payload = address octets then the encoded
\* elements in the caller's order.
C4_Undirected ==
    ( /\ pdu.op \in { "connectable_undirected", "nonconnectable_undirected",
                      "scannable_undirected" }
      /\ EncodedSize(pdu.a2) <= 31 ) =>
        /\ Res.outcome = "Ok"
        /\ type_(header(Res)) = TypeOf(pdu.op)
        /\ tx_add(header(Res)) = pdu.a1.random
        /\ rx_add(header(Res)) = FALSE
        /\ payload_length(header(Res)) = 6 + EncodedSize(pdu.a2)
        /\ payload(Res) = pdu.a1.bytes \o Flatten(pdu.a2)

\* C4 witness: scannable_undirected from a random address with two different
\* elements that fill the 31 octets exactly.
C4_Witness ==
    /\ pdu.op = "scannable_undirected"
    /\ pdu.a1.random
    /\ Len(pdu.a2) = 2 /\ pdu.a2[1] # pdu.a2[2]
    /\ EncodedSize(pdu.a2) = 31
    /\ Res.outcome = "Ok"

\* C5: a successful beacon is non-connectable-undirected and a successful
\* discoverable is connectable-undirected; the payload is the address octets,
\* then one 3-octet Flags element (broadcast flags for beacon, general
\* discoverability for discoverable), then the caller's elements in order;
\* with no caller data the length is 9.
C5_FlagsFirst ==
    (pdu.op \in { "beacon", "discoverable" } /\ Res.outcome = "Ok") =>
        LET flags == Encode(Mandatory(pdu.op)[1]) IN
        /\ type_(header(Res)) = TypeOf(pdu.op)
        /\ Len(flags) = 3 /\ flags[1] = 2 /\ flags[2] = AD_TYPE_FLAGS
        /\ flags[3] = (IF pdu.op = "beacon" THEN FLAGS_BROADCAST
                       ELSE FLAGS_DISCOVERABLE)
        /\ payload(Res) = pdu.a1.bytes \o flags \o Flatten(pdu.a2)
        /\ pdu.a2 = <<>> => payload_length(header(Res)) = 9

\* C5 witness: a beacon carrying caller data behind the Flags element.
C5_Witness ==
    /\ pdu.op = "beacon"
    /\ Len(pdu.a2) = 2
    /\ Res.outcome = "Ok"

\* C9: scan_request and scan_response abort with unimplemented!() on every
\* input and return neither a buffer nor any other result.
C9_ScanUnsupported ==
    pdu.op \in { "scan_request", "scan_response" } =>
        /\ Res = Panic
        /\ panicked

\* C9 witness: scan_response was called with advertising data that would fit.
C9_Witness ==
    /\ pdu.op = "scan_response"
    /\ Len(pdu.a2) = 1
    /\ panicked

\* the header, once it exists
H == hdr[1]

\* the header a receiver parses from the two octets sent for h
Received(h) == parse(le_bytes(to_u16(h)))

\* the packet types a 4-bit type field can name
FieldTypes == { PduTypeFromU8(code) : code \in 0..15 }

\* h1 and h2 agree on every bit outside the `width` bits from bit `low` up
SameOutside(h1, h2, low, width) ==
    /\ h1 % (2 ^ low) = h2 % (2 ^ low)
    /\ h1 \div (2 ^ (low + width)) = h2 \div (2 ^ (low + width))

\* the getters of a built header return what the builder set last, and the
\* header parsed from its two octets answers every getter alike
RoundTrip ==
    /\ type_(Received(H)) = type_(H)
    /\ tx_add(Received(H)) = tx_add(H)
    /\ rx_add(Received(H)) = rx_add(H)
    /\ payload_length(Received(H)) = payload_length(H)
    /\ type_(H) = log.ty[1]
    /\ log.tx # NotSet => tx_add(H) = log.tx[1]
    /\ log.rx # NotSet => rx_add(H) = log.rx[1]
    /\ log.len # NotSet => payload_length(H) = log.len[1]

\* C6 as stated: the round trip and the getters, for a header built by
\* Header::new(type) with any PduType and then any setter calls.
C6_RoundTrip == Built => RoundTrip

\* C6 amended: the same for a type the 4-bit field can name: a known variant,
\* or Unknown carrying one of the unassigned codes 7..15.
C6_RoundTripFieldTypes == (Built /\ log.ty[1] \in FieldTypes) => RoundTrip

\* C6 witness: a scannable-undirected header with TxAdd set, RxAdd cleared and
\* length 37.
C6_Witness ==
    /\ log = [ty |-> <<Known("AdvScanInd")>>, tx |-> <<TRUE>>,
              rx |-> <<FALSE>>, len |-> <<37>>]
    /\ ~panicked

\* C7: Header::new(t) sets nothing but type bits 0-3, for every PduType t:
\* TxAdd and RxAdd clear, length 0, both reserved groups zero.
C7_NewSetsOnlyType ==
    (Built /\ log.tx = NotSet /\ log.rx = NotSet /\ log.len = NotSet) =>
        /\ ~tx_add(H)
        /\ ~rx_add(H)
        /\ payload_length(H) = 0
        /\ H < 16

\* C8: on every header, set_payload_length(n) stores n exactly when
\* 6 <= n <= 37, and payload_length() then returns n; any other 8-bit n
\* panics and leaves the header as it was.
C8_SetPayloadLength ==
    (hdr # NoHeader /\ ~panicked) =>
        \A n \in U8 :
            LET r == set_payload_length(H, n) IN
            IF 6 <= n /\ n <= 37
            THEN ~r.panic /\ payload_length(r.header) = n
            ELSE r.panic /\ r.header = H

\* C8 witness: a header holding the largest legal length 37 on which a later
\* set_payload_length call was rejected and aborted the program.
C8_Witness ==
    /\ panicked
    /\ payload_length(H) = 37

\* C10: on every 16-bit header, set_tx_add changes at most bit 6, set_rx_add
\* at most bit 7 and a successful set_payload_length at most bits 8-13; the
\* setters commute and each is idempotent.
C10_Frame ==
    (hdr # NoHeader /\ ~panicked) =>
        /\ \A v \in BOOLEAN :
              LET t == set_tx_add(H, v)
                  r == set_rx_add(H, v)
              IN  /\ SameOutside(t, H, 6, 1)
                  /\ SameOutside(r, H, 7, 1)
                  /\ set_tx_add(t, v) = t
                  /\ set_rx_add(r, v) = r
                  /\ \A w \in BOOLEAN : set_rx_add(t, w) = set_tx_add(set_rx_add(H, w), v)
        /\ \A n \in 6..37 :
              LET l == set_payload_length(H, n).header IN
              /\ SameOutside(l, H, 8, 6)
              /\ set_payload_length(l, n).header = l
              /\ \A v \in BOOLEAN :
                    /\ set_tx_add(l, v) = set_payload_length(set_tx_add(H, v), n).header
                    /\ set_rx_add(l, v) = set_payload_length(set_rx_add(H, v), n).header

\* C10 witness: a parsed header with both reserved groups set on which each
\* setter changes its field.
C10_Witness ==
    /\ hdr # NoHeader /\ ~panicked
    /\ (H \div 16) % 4 = 3 /\ H \div 16384 = 3
    /\ set_tx_add(H, TRUE) # H
    /\ set_rx_add(H, FALSE) # H
    /\ set_payload_length(H, 6).header # H

=============================================================================
